---- MODULE Spec2Model ----
(***************************************************************************)
(* State-machine model of the dog heartbeat tracker firmware               *)
(* (DogHealthMonitoringTest.ino): the control loop that smooths the        *)
(* sensor channels, classifies presence and quiet, detects beats,          *)
(* estimates the BPM, derives the system state and drives the LED.         *)
(*                                                                         *)
(* One execution of loop() is modelled as six consecutive steps, the       *)
(* variable pc naming the step that runs next:                             *)
(*   "sample"    lines 87-91    read and smooth the sensors                *)
(*   "quiet"     lines 93-97    idle / quiet reset                         *)
(*   "heartbeat" lines 99-102   detectHeartbeat() and updateBPM()          *)
(*   "timeout"   lines 104-108  heartbeat timeout                          *)
(*   "state"     line  111      updateSystemState()                        *)
(*   "led"       lines 112-124  updateLED(), health check, delay           *)
(* pc = "sample" therefore is "between two ticks": the end of one          *)
(* execution of loop() and the start of the next.                          *)
(*                                                                         *)
(* Time.  millis() is a 32-bit unsigned counter of milliseconds that wraps *)
(* to 0 after 2^32 ms.  A clock value m is held here as the signed reading *)
(* of the same 32 bits: m itself below 2^31 and m - 2^32 from 2^31 on, so  *)
(* that the instants shortly before the wrap are the small negative        *)
(* numbers.  The unsigned difference a - b is then the signed reading of   *)
(* the plain difference, and an unsigned comparison with a small constant  *)
(* k reads "d > k" as d < 0 \/ d > k.  Every clock value of the model lies *)
(* within a few seconds of 0, so no difference leaves the 32-bit range.    *)
(* The Serial dashboard and its timer (lastUI) only print; they are left   *)
(* out.  All millis() readings of one tick up to updateLED are taken to be *)
(* the same value, now.                                                    *)
(***************************************************************************)
EXTENDS Integers, FiniteSets, Sequences, TLC

VARIABLES
  now,               \* millis() as read during the current tick
  pc,                \* the step of loop() that runs next
  drive,             \* what produces the sensor samples (the environment)
  pulseRaw, piezoRaw, fsrRaw, audioEnergy,   \* the smoothed sensor frame
  pulseThreshold,    \* set once by calibratePulseSensor()
  bpm, lastStableBPM, validBeatCount,
  lastBeatTime, lastValidBeatTime,
  beatDetected,
  systemState,
  lastBlink, ledState,   \* the statics of updateLED()
  ledPin,            \* level last written to PIN_LED
  flashed,           \* the 40 ms LED pulse was emitted in the current tick
  wrapped,           \* history: millis() has wrapped around since startup
  atStart,           \* history: the BPM state and system state when the
                     \* current tick began
  peaks,             \* history, scripted trains only: the times the smoothed
                     \* pulse has risen above the threshold
  healthAlert,       \* what checkHealthStatus() printed in the current tick:
                     \* "LOW", "HIGH", "none", or "off" while it has not run
  lockedOut,         \* history: the timeout check of some tick has fired
                     \* since startup or, if later, since millis() last wrapped
  nq,                \* the BPM state and system state of the same program with
                     \* the quiet-reset block (lines 93-97) taken out, run on
                     \* the same samples
  \* The two earlier revisions of the firmware (unnamed/part_000, testver.ino),
  \* each a program of its own.  A run models either the tracker above or one
  \* of them; the other side's variables then keep their initial values.
  protoDrive,        \* the revision that runs and what produces its samples
  protoNow,          \* millis() as read during the current execution of loop()
  protoLoops,        \* executions of loop() so far
  attachmentCount, isProperlyAttached,      \* checkAttachment()
  pulseBuffer, bufferIndex,   \* pulseBuffer[10], bufferIndex of readHeartRate();
                              \* pulseValues[20], pulseIndex of testPulseSensor()
  lastPulse, wasRising,       \* lastPulse (lastRaw in testver.ino), wasRising
  lastBeat, beatCount,        \* lastBeat (lastBeatTime in testver.ino), beatCount
  heartRateBPM,               \* dog.heartRateBPM
  divTrap,           \* history: a division by zero was executed
  highsSinceZero,    \* history: pressure reads above 1000 since attachmentCount
                     \* was last 0, counted up to 3
  lowsSinceFull      \* history: pressure reads of 1000 or less since
                     \* attachmentCount was last 5, counted up to 3 (-1 before
                     \* it was ever 5)

trackerVars ==
  <<now, pc, drive, pulseRaw, piezoRaw, fsrRaw, audioEnergy,
    pulseThreshold, bpm, lastStableBPM, validBeatCount, lastBeatTime,
    lastValidBeatTime, beatDetected, systemState, lastBlink, ledState,
    ledPin, flashed, wrapped, atStart, peaks, healthAlert, lockedOut, nq>>

heartVars == <<pulseBuffer, bufferIndex, lastPulse, wasRising, lastBeat,
               beatCount, heartRateBPM, divTrap>>

protoVars == <<protoDrive, protoNow, protoLoops, attachmentCount,
               isProperlyAttached, heartVars, highsSinceZero, lowsSinceFull>>

vars == <<trackerVars, protoVars>>

sensorVars == <<pulseRaw, piezoRaw, fsrRaw, audioEnergy>>
bpmVars == <<bpm, lastStableBPM, validBeatCount, lastBeatTime, lastValidBeatTime>>
ledVars == <<lastBlink, ledState, ledPin, flashed>>

----------------------------------------------------------------------------
(* Program constants *)

BPM_MIN == 40
BPM_MAX == 250
FSR_ATTACHED_THRESHOLD == 400
PIEZO_ACTIVITY_THRESHOLD == 1500
AUDIO_ACTIVITY_THRESHOLD == 500
HEARTBEAT_TIMEOUT == 3000
REQUIRED_VALID_BEATS == 3
ADC_MAX == 4095

NO_DOG == "NO_DOG"
WEAK_SIGNAL == "WEAK_SIGNAL"
MONITORING == "MONITORING"

\* setup(): delay(2000), then calibratePulseSensor(): 50 samples, delay(20) each
SETUP_DELAY == 2000
CALIBRATION_SAMPLES == 50
CALIBRATION_DELAY == 20
StartupMillis == SETUP_DELAY + CALIBRATION_SAMPLES * CALIBRATION_DELAY

\* delay(10) at the end of loop(), delay(40) inside the LED pulse
LOOP_DELAY == 10
FLASH_DELAY == 40

----------------------------------------------------------------------------
(* Bounds of the model *)

\* the clock value up to which ticks are explored (free and no-contact drive)
MaxTime == 5000
\* the same for the scripted beat trains
MaxTrainTime == 5700

\* Duration of a tick, in ms, under the free and the no-contact drive, fixed
\* for a run.  The code fixes only the minimum (its delays).  Beat intervals and
\* the age of the last accepted beat are multiples of it: 300 gives the
\* intervals 300, 1800 and the age 3000; 400 the interval 1600 (under BPM_MIN);
\* 500 the interval 1500 (BPM_MIN itself) and the age 3000.
TickDurations == {300, 400, 500}

\* The same for the runs with fast beats: 301 gives the shortest interval the
\* filter passes (199 BPM), and 602, 903 and 1204 (99, 66 and 49 BPM).
FastTickDurations == {301}

\* Clock values (signed reading: ms before the wrap) at which a long idle
\* stretch ends.
PreWrapClocks == {0 - 200, 0 - 700}

\* Sensor frames <<pulse, piezo, pressure, audio energy>> the smoothed channels
\* are steered to under the free drive (the pulse threshold is 800 there):
\* quiet; absent but not quiet; pressure exactly at the threshold; present with
\* the pulse below the threshold; present with the audio under the beat
\* threshold; a beat; and the same with the piezo channel active.
FreeFrames ==
  { <<800, 0, 310, 0>>, <<900, 0, 310, 200>>, <<900, 0, 400, 501>>,
    <<800, 0, 401, 501>>, <<900, 0, 401, 301>>, <<900, 0, 401, 501>>,
    <<900, 900, 310, 0>>, <<900, 900, 401, 0>>, <<900, 900, 401, 501>> }

\* Channel values and audio energies of the no-contact drive.
PulseLevels == {800, 900}
PiezoLevels == {1600}
AudioLevels == {0, 501}

\* Mean of the 50 calibration samples.
FreeAmbients == {0}
TrainAmbient == 2200

\* Scripted beat trains: period of the pulse peaks and the piezo level held,
\* the clock phase of the peaks, the pressure held, and the smoothed pulse at
\* rest and on a peak (around the threshold of 3000 that TrainAmbient gives).
TrainPeriods == {500, 1000}
TrainPiezos == {900, 1600}
\* the number of consecutive ticks for which the pulse of one heartbeat stays
\* above the threshold
TrainWidths == {1, 3}
TrainPhase == 100
TrainPressure == 500
TrainPulseRest == 2900
TrainPulsePeak == 3100

\* Raw pressure samples of the no-contact drive.
NoContactPressures == {100, 400}

\* Runs with a high calibration baseline: the mean of the calibration samples,
\* the value the smoothed pulse is steered to when the raw sample is not the
\* largest one the converter gives, and the pressures held.
HighAmbients == {3295, 4095}
HighPulseRests == {3000}
HighPressures == {310, 401}

----------------------------------------------------------------------------
(* 32-bit unsigned clock arithmetic on the signed reading *)

\* a - b of two unsigned long values
Elapsed(a, b) == a - b

\* d > k and d < k for an unsigned difference d and a constant 0 <= k < 2^31
UGt(d, k) == d < 0 \/ d > k
ULt(d, k) == d >= 0 /\ d < k

Abs(x) == IF x < 0 THEN 0 - x ELSE x

----------------------------------------------------------------------------
(* Pure parts of the program *)

\* x = (x * 3 + analogRead(pin)) / 4
Smooth(prev, raw) == (prev * 3 + raw) \div 4

\* a variant that takes the offset of pulseBaseline
CalibratedThreshold_Baseline(ambient) == ambient + 400

\* calibratePulseSensor(): pulseThreshold = ambient + 800
CalibratedThreshold(ambient) == ambient + 800

\* a variant in which contact or activity alone suffices
isDogReallyPresent_Either ==
  (fsrRaw > FSR_ATTACHED_THRESHOLD) \/ (piezoRaw > 800 \/ audioEnergy > 300)

\* lines 128-131
isDogReallyPresent ==
  (fsrRaw > FSR_ATTACHED_THRESHOLD) /\ (piezoRaw > 800 \/ audioEnergy > 300)

\* lines 134-138
isSystemQuiet ==
  (fsrRaw < FSR_ATTACHED_THRESHOLD) /\ (piezoRaw < 500) /\ (audioEnergy < 200)

\* the value detectHeartbeat() returns
detectHeartbeat ==
  /\ isDogReallyPresent
  /\ pulseRaw > pulseThreshold
  /\ (piezoRaw > PIEZO_ACTIVITY_THRESHOLD \/ audioEnergy > AUDIO_ACTIVITY_THRESHOLD)

\* updateBPM(): if (interval > 300 && interval < 1800)
IntervalPlausible(interval) == UGt(interval, 300) /\ ULt(interval, 1800)

\* updateBPM(): int newBPM = 60000 / interval
InstantBPM(interval) == 60000 \div interval

\* a variant without the lower bound
BpmInRange_NoMin(newBPM) == newBPM <= BPM_MAX

\* updateBPM(): if (newBPM >= BPM_MIN && newBPM <= BPM_MAX)
BpmInRange(newBPM) == newBPM >= BPM_MIN /\ newBPM <= BPM_MAX

\* a variant that counts every filtered beat
Consistent_Always(newBPM) == TRUE

\* updateBPM(): if (bpm == 0 || abs(newBPM - lastStableBPM) < 20)
Consistent(newBPM) == bpm = 0 \/ Abs(newBPM - lastStableBPM) < 20

\* a variant that divides the new value only
SmoothedBPM_Precedence(old, newBPM) == old * 2 + newBPM \div 3

\* updateBPM(): bpm = (bpm * 2 + newBPM) / 3
SmoothedBPM(old, newBPM) == (old * 2 + newBPM) \div 3

\* updateBPM(): the interval is computed and passes both filters
BeatCounts ==
  /\ lastBeatTime # 0
  /\ IntervalPlausible(Elapsed(now, lastBeatTime))
  /\ BpmInRange(InstantBPM(Elapsed(now, lastBeatTime)))

\* a variant that already fires at the timeout itself
TimedOut_AtBoundary ==
  LET age == Elapsed(now, lastValidBeatTime)
  IN age < 0 \/ age >= HEARTBEAT_TIMEOUT

\* a variant that measures the age of the last raw beat instead
TimedOut_SinceRawBeat == UGt(Elapsed(now, lastBeatTime), HEARTBEAT_TIMEOUT)

\* loop(): if (millis() - lastValidBeatTime > HEARTBEAT_TIMEOUT)
TimedOut == UGt(Elapsed(now, lastValidBeatTime), HEARTBEAT_TIMEOUT)

----------------------------------------------------------------------------
(* The environment: raw samples and tick durations *)

FreeDrive(d) ==
  [kind |-> "free", tick |-> d, period |-> 0, piezo |-> 0, width |-> 0]
NoContactDrive(d) ==
  [kind |-> "nocontact", tick |-> d, period |-> 0, piezo |-> 0, width |-> 0]
HighAmbientDrive(d) ==
  [kind |-> "highambient", tick |-> d, period |-> 0, piezo |-> 0, width |-> 0]
TrainDrive(p, z, w) ==
  [kind |-> "train", tick |-> LOOP_DELAY, period |-> p, piezo |-> z, width |-> w]

\* the raw sample that moves a smoothed channel from x to target
RawFor(x, target) == 4 * target - 3 * x

Clamp(v) == IF v < 0 THEN 0 ELSE IF v > ADC_MAX THEN ADC_MAX ELSE v

\* time between the millis() readings of two consecutive ticks is at least the
\* delay(10), plus the delay(40) of an LED pulse
MinTick == LOOP_DELAY + (IF flashed THEN FLASH_DELAY ELSE 0)

\* the duration of the tick that starts now
TickLength == IF drive.tick > MinTick THEN drive.tick ELSE MinTick

Horizon == IF drive.kind = "train" THEN MaxTrainTime ELSE MaxTime

\* scripted train: the pulse is at its peak on the ticks that fall within the
\* width * LOOP_DELAY ms from TrainPhase + k * period (width consecutive ticks of
\* LOOP_DELAY ms)
TrainPeakAt(t) == (t - TrainPhase) % drive.period < drive.width * LOOP_DELAY

----------------------------------------------------------------------------
(* The earlier revisions: unnamed/part_000 (checkAttachment, readHeartRate)   *)
(* and testver.ino (testPulseSensor)                                          *)

\* Bounds: executions of loop() explored under each drive
ProtoAttachLoops == 10
ProtoPulseLoops == 25
ProtoTestLoops == 11

\* Raw pressure and pulse samples, and the time one execution of loop() takes
\* beyond its delay() calls
ProtoPressures == {1000, 1001}
ProtoPulseLevels == {0, 4095}
ProtoSlacks == {0, 20}

NoProtoDrive ==
  [rev |-> "none", fsrs |-> {}, pulses |-> {}, slack |-> 0, loops |-> 0]
AttachDrive ==
  [rev |-> "part_000", fsrs |-> ProtoPressures, pulses |-> {0}, slack |-> 0,
   loops |-> ProtoAttachLoops]
PulseDrive(k) ==
  [rev |-> "part_000", fsrs |-> {ADC_MAX}, pulses |-> ProtoPulseLevels,
   slack |-> k, loops |-> ProtoPulseLoops]
TestverDrive(k) ==
  [rev |-> "testver", fsrs |-> {}, pulses |-> ProtoPulseLevels, slack |-> k,
   loops |-> ProtoTestLoops]

Min(a, b) == IF a < b THEN a ELSE b
Max(a, b) == IF a > b THEN a ELSE b

RECURSIVE SeqSum(_)
SeqSum(q) == IF q = <<>> THEN 0 ELSE Head(q) + SeqSum(Tail(q))

\* testPulseSensor(): minVal starts at 4096, maxVal at 0
RECURSIVE SeqMin(_)
SeqMin(q) == IF q = <<>> THEN 4096 ELSE Min(Head(q), SeqMin(Tail(q)))

RECURSIVE SeqMax(_)
SeqMax(q) == IF q = <<>> THEN 0 ELSE Max(Head(q), SeqMax(Tail(q)))

\* buffer[index] = value, index counted from 0
Store(buffer, index, value) == [buffer EXCEPT ![index + 1] = value]

\* length of the sample buffer: pulseBuffer[10], pulseValues[20]
BufferLength(rev) == IF rev = "part_000" THEN 10 ELSE IF rev = "testver" THEN 20 ELSE 0

\* counted beats after which the rate is computed: 5 in readHeartRate(), 4 in
\* testPulseSensor()
BeatsPerReport(rev) == IF rev = "part_000" THEN 5 ELSE 4

\* millis() when loop() first runs: setup() delays 2000 ms; calibrateSensors()
\* of part_000 3000 ms more and 50 times 20 ms
ProtoStartupMillis(rev) ==
  IF rev = "part_000"
    THEN SETUP_DELAY + 3000 + CALIBRATION_SAMPLES * CALIBRATION_DELAY
    ELSE SETUP_DELAY

\* a variant of the counter that does not saturate
NextAttachmentCount_Unclamped(count, fsrValue) ==
  IF fsrValue > 1000 THEN count + 1 ELSE count - 1

\* checkAttachment(): the saturating counter
NextAttachmentCount(count, fsrValue) ==
  IF fsrValue > 1000 THEN Min(count + 1, 5) ELSE Max(count - 1, 0)

\* checkAttachment(): dog.isProperlyAttached = (attachmentCount >= 3)
Attached(count) == count >= 3

\* if (interval > 300 && interval < 1500)
ProtoIntervalCounts(interval) == interval > 300 /\ interval < 1500

\* the divisor of 60000 / (interval / beatCount)
RateDivisor(interval, count) == interval \div count

ProtoInitWith(drv) ==
  /\ protoDrive = drv
  /\ protoNow = ProtoStartupMillis(drv.rev)
  /\ protoLoops = 0
  /\ attachmentCount = 0
  /\ isProperlyAttached = FALSE
  /\ pulseBuffer = [i \in 1 .. BufferLength(drv.rev) |-> 0]
  /\ bufferIndex = 0
  /\ lastPulse = 0 /\ wasRising = FALSE
  /\ lastBeat = 0 /\ beatCount = 0
  /\ heartRateBPM = 0
  /\ divTrap = FALSE
  /\ highsSinceZero = 0
  /\ lowsSinceFull = -1

----------------------------------------------------------------------------
(* Initial state: the globals as initialised, after setup() has returned *)

TrackerInitWith(drv, ambient) ==
  /\ now = StartupMillis
  /\ pc = "sample"
  /\ drive = drv
  /\ pulseRaw = 0 /\ piezoRaw = 0 /\ fsrRaw = 0 /\ audioEnergy = 0
  /\ pulseThreshold = CalibratedThreshold(ambient)
  /\ bpm = 0 /\ lastStableBPM = 0 /\ validBeatCount = 0
  /\ lastBeatTime = 0 /\ lastValidBeatTime = 0
  /\ beatDetected = FALSE
  /\ systemState = NO_DOG
  /\ lastBlink = 0 /\ ledState = FALSE /\ ledPin = FALSE
  /\ flashed = FALSE
  /\ wrapped = FALSE
  /\ atStart = [bpm |-> 0, lastStableBPM |-> 0, validBeatCount |-> 0,
                lastBeatTime |-> 0, lastValidBeatTime |-> 0,
                systemState |-> NO_DOG, beatDetected |-> FALSE]
  /\ peaks = 0
  /\ healthAlert = "off"
  /\ lockedOut = FALSE
  /\ nq = [bpm |-> 0, lastStableBPM |-> 0, validBeatCount |-> 0,
           lastBeatTime |-> 0, lastValidBeatTime |-> 0, systemState |-> NO_DOG]

\* a run of the tracker: the earlier revisions do not run
InitWith(drv, ambient) ==
  /\ TrackerInitWith(drv, ambient)
  /\ ProtoInitWith(NoProtoDrive)

Init ==
  \E ambient \in FreeAmbients, d \in TickDurations : InitWith(FreeDrive(d), ambient)

TrainInit ==
  \E p \in TrainPeriods, z \in TrainPiezos, w \in TrainWidths :
     InitWith(TrainDrive(p, z, w), TrainAmbient)

FastInit ==
  \E ambient \in FreeAmbients, d \in FastTickDurations :
     InitWith(FreeDrive(d), ambient)

HighAmbientInit ==
  \E ambient \in HighAmbients, d \in TickDurations :
     InitWith(HighAmbientDrive(d), ambient)

NoContactInit ==
  \E ambient \in FreeAmbients, d \in TickDurations :
     InitWith(NoContactDrive(d), ambient)

----------------------------------------------------------------------------
(* The steps of loop() *)

\* lines 87-91: one raw sample per channel, smoothed 3:1, and the audio energy
SampleWith(rawPulse, rawPiezo, rawFsr, energy) ==
  /\ pc = "sample"
  /\ now + TickLength <= Horizon
  /\ rawPulse \in 0 .. ADC_MAX /\ rawPiezo \in 0 .. ADC_MAX /\ rawFsr \in 0 .. ADC_MAX
  /\ now' = now + TickLength
  /\ wrapped' = (wrapped \/ (now < 0 /\ now + TickLength >= 0))
  /\ pulseRaw' = Smooth(pulseRaw, rawPulse)
  /\ peaks' = IF /\ drive.kind = "train"
                 /\ pulseRaw <= pulseThreshold
                 /\ Smooth(pulseRaw, rawPulse) > pulseThreshold
              THEN peaks + 1 ELSE peaks
  /\ piezoRaw' = Smooth(piezoRaw, rawPiezo)
  /\ fsrRaw' = Smooth(fsrRaw, rawFsr)
  /\ audioEnergy' = energy
  /\ flashed' = FALSE
  /\ atStart' = [bpm |-> bpm, lastStableBPM |-> lastStableBPM,
                 validBeatCount |-> validBeatCount, lastBeatTime |-> lastBeatTime,
                 lastValidBeatTime |-> lastValidBeatTime,
                 systemState |-> systemState, beatDetected |-> beatDetected]
  /\ healthAlert' = "off"
  /\ lockedOut' = (lockedOut /\ ~(now < 0 /\ now + TickLength >= 0))
  /\ pc' = "quiet"
  /\ UNCHANGED <<drive, pulseThreshold, bpmVars, beatDetected, systemState,
                 lastBlink, ledState, ledPin, nq, protoVars>>

Sample ==
  CASE drive.kind = "free" ->
         \E f \in FreeFrames :
            SampleWith(RawFor(pulseRaw, f[1]), RawFor(piezoRaw, f[2]),
                       RawFor(fsrRaw, f[3]), f[4])
    [] drive.kind = "nocontact" ->
         \E p \in PulseLevels, z \in PiezoLevels,
            rf \in NoContactPressures, a \in AudioLevels :
            SampleWith(Clamp(RawFor(pulseRaw, p)), Clamp(RawFor(piezoRaw, z)), rf, a)
    [] drive.kind = "highambient" ->
         \E rp \in {ADC_MAX} \cup {Clamp(RawFor(pulseRaw, r)) : r \in HighPulseRests},
            z \in PiezoLevels, f \in HighPressures, a \in AudioLevels :
            SampleWith(rp, Clamp(RawFor(piezoRaw, z)), Clamp(RawFor(fsrRaw, f)), a)
    [] drive.kind = "train" ->
         SampleWith(Clamp(RawFor(pulseRaw, IF TrainPeakAt(now + TickLength)
                                           THEN TrainPulsePeak ELSE TrainPulseRest)),
                    Clamp(RawFor(piezoRaw, drive.piezo)),
                    Clamp(RawFor(fsrRaw, TrainPressure)),
                    0)

\* Many consecutive executions of loop() with nothing on any sensor (every raw
\* sample and the audio energy 0), from a state in which every smoothed channel
\* is 0 already: each of them leaves all but the clock and the blinking LED as
\* they are (quiet reset, no beat, NO_DOG).  The stretch runs until shortly
\* before millis() wraps and ends on a tick that toggles the LED.
IdleStretch ==
  /\ pc = "sample"
  /\ ~wrapped /\ now > 0
  /\ pulseRaw = 0 /\ piezoRaw = 0 /\ fsrRaw = 0 /\ audioEnergy = 0
  /\ systemState = NO_DOG /\ bpm = 0 /\ validBeatCount = 0
  /\ \E t \in PreWrapClocks, led \in BOOLEAN :
       /\ now' = t
       /\ lastBlink' = t
       /\ ledState' = led
       /\ ledPin' = led
  /\ lockedOut' = TRUE
  /\ UNCHANGED <<pc, drive, sensorVars, pulseThreshold, bpmVars, beatDetected,
                 systemState, flashed, wrapped, atStart, peaks, healthAlert, nq,
                 protoVars>>

\* a variant without the quiet reset
QuietClears_Never == FALSE

\* loop(): if (isSystemQuiet()), the condition of the quiet reset
QuietClears == isSystemQuiet

\* lines 93-97
QuietReset ==
  /\ pc = "quiet"
  /\ IF QuietClears
       THEN bpm' = 0 /\ validBeatCount' = 0
       ELSE UNCHANGED <<bpm, validBeatCount>>
  /\ pc' = "heartbeat"
  /\ UNCHANGED <<now, drive, sensorVars, pulseThreshold, lastStableBPM,
                 lastBeatTime, lastValidBeatTime, beatDetected, systemState,
                 ledVars, wrapped, atStart, peaks, healthAlert, lockedOut, nq,
                 protoVars>>

\* updateBPM(): the consistency step, lines 169-173
NextStreak(newBPM) == IF Consistent(newBPM) THEN validBeatCount + 1 ELSE 0

\* a variant that accepts one beat early
StreakComplete_OneEarly(count) == count >= REQUIRED_VALID_BEATS - 1

\* updateBPM(): if (validBeatCount >= REQUIRED_VALID_BEATS)
StreakComplete(count) == count >= REQUIRED_VALID_BEATS

\* updateBPM() applied to a BPM state s held as a record
BeatOn(s) ==
  LET interval == Elapsed(now, s.lastBeatTime)
      newBPM == InstantBPM(interval)
      counts == /\ s.lastBeatTime # 0
                /\ IntervalPlausible(interval)
                /\ BpmInRange(newBPM)
      streak == IF ~counts THEN s.validBeatCount
                ELSE IF s.bpm = 0 \/ Abs(newBPM - s.lastStableBPM) < 20
                       THEN s.validBeatCount + 1
                       ELSE 0
      accepted == counts /\ StreakComplete(streak)
  IN [s EXCEPT !.validBeatCount = streak,
               !.lastStableBPM = IF accepted THEN newBPM ELSE @,
               !.bpm = IF accepted THEN SmoothedBPM(@, newBPM) ELSE @,
               !.lastValidBeatTime = IF accepted THEN now ELSE @,
               !.lastBeatTime = now]

\* the heartbeat timeout, lines 104-108, applied to s
TimeoutOn(s) ==
  IF UGt(Elapsed(now, s.lastValidBeatTime), HEARTBEAT_TIMEOUT)
    THEN [s EXCEPT !.bpm = 0, !.validBeatCount = 0]
    ELSE s

\* lines 158-185, called at clock value now
updateBPM ==
  LET interval == Elapsed(now, lastBeatTime)
      newBPM == InstantBPM(interval)
      counts == BeatCounts
      accepted == counts /\ StreakComplete(NextStreak(newBPM))
  IN /\ validBeatCount' = IF counts THEN NextStreak(newBPM) ELSE validBeatCount
     /\ lastStableBPM' = IF accepted THEN newBPM ELSE lastStableBPM
     /\ bpm' = IF accepted THEN SmoothedBPM(bpm, newBPM) ELSE bpm
     /\ lastValidBeatTime' = IF accepted THEN now ELSE lastValidBeatTime
     /\ lastBeatTime' = now

\* lines 99-102 with detectHeartbeat(), lines 141-155
Heartbeat ==
  /\ pc = "heartbeat"
  /\ IF detectHeartbeat
       THEN beatDetected' = TRUE /\ updateBPM /\ nq' = BeatOn(nq)
       ELSE UNCHANGED <<bpmVars, beatDetected, nq>>
  /\ pc' = "timeout"
  /\ UNCHANGED <<now, drive, sensorVars, pulseThreshold, systemState, ledVars,
                 wrapped, atStart, peaks, healthAlert, lockedOut, protoVars>>

\* lines 104-108
Timeout ==
  /\ pc = "timeout"
  /\ IF TimedOut
       THEN bpm' = 0 /\ validBeatCount' = 0 /\ lockedOut' = TRUE
       ELSE UNCHANGED <<bpm, validBeatCount, lockedOut>>
  /\ nq' = TimeoutOn(nq)
  /\ pc' = "state"
  /\ UNCHANGED <<now, drive, sensorVars, pulseThreshold, lastStableBPM,
                 lastBeatTime, lastValidBeatTime, beatDetected, systemState,
                 ledVars, wrapped, atStart, peaks, healthAlert, protoVars>>

\* a latched variant: MONITORING is kept until presence is lost
ClassifiedState_Latched ==
  IF ~isDogReallyPresent THEN NO_DOG
  ELSE IF bpm = 0 /\ systemState # MONITORING THEN WEAK_SIGNAL ELSE MONITORING

\* updateSystemState(): the state chosen
ClassifiedState ==
  IF ~isDogReallyPresent THEN NO_DOG
  ELSE IF bpm = 0 THEN WEAK_SIGNAL ELSE MONITORING

\* a variant that only reclassifies on presence loss
PresenceLossClears_Never == FALSE

\* updateSystemState(): the BPM state is cleared in the NO_DOG branch
PresenceLossClears == ~isDogReallyPresent

\* updateSystemState() applied to s
StateOn(s) ==
  LET cleared == IF PresenceLossClears
                   THEN [s EXCEPT !.bpm = 0, !.validBeatCount = 0]
                   ELSE s
  IN [cleared EXCEPT !.systemState =
        IF ~isDogReallyPresent THEN NO_DOG
        ELSE IF s.bpm = 0 THEN WEAK_SIGNAL ELSE MONITORING]

\* lines 188-202
UpdateSystemState ==
  /\ pc = "state"
  /\ systemState' = ClassifiedState
  /\ IF PresenceLossClears
       THEN bpm' = 0 /\ validBeatCount' = 0
       ELSE UNCHANGED <<bpm, validBeatCount>>
  /\ nq' = StateOn(nq)
  /\ pc' = "led"
  /\ UNCHANGED <<now, drive, sensorVars, pulseThreshold, lastStableBPM,
                 lastBeatTime, lastValidBeatTime, beatDetected, ledVars, wrapped,
                 atStart, peaks, healthAlert, lockedOut, protoVars>>

\* updateLED(): the blink period of a state, lines 211 and 219
BlinkPeriod(state) == IF state = NO_DOG THEN 1000 ELSE 250

\* updateLED(): if (millis() - lastBlink > period)
BlinkDue(state) == UGt(Elapsed(now, lastBlink), BlinkPeriod(state))

\* a variant without the high-rate branch
HealthWarning_NoHigh(b) == IF b < 60 THEN "LOW" ELSE "none"

\* checkHealthStatus(): the warning printed for a displayed BPM
HealthWarning(b) == IF b < 60 THEN "LOW" ELSE IF b > 160 THEN "HIGH" ELSE "none"

\* a variant that pulses on every tick in MONITORING
PulseDue_Level == TRUE

\* updateLED(), case MONITORING: if (beatDetected)
PulseDue == beatDetected

\* lines 205-235, then the health check of lines 120-122 and delay(10)
UpdateLED ==
  /\ pc = "led"
  /\ IF systemState = MONITORING
       THEN /\ IF PulseDue
                 THEN ledPin' = FALSE /\ flashed' = TRUE /\ beatDetected' = FALSE
                 ELSE UNCHANGED <<ledPin, flashed, beatDetected>>
            /\ UNCHANGED <<lastBlink, ledState>>
       ELSE /\ IF BlinkDue(systemState)
                 THEN ledState' = ~ledState /\ ledPin' = ~ledState /\ lastBlink' = now
                 ELSE UNCHANGED <<lastBlink, ledState, ledPin>>
            /\ UNCHANGED <<flashed, beatDetected>>
  /\ healthAlert' = IF systemState = MONITORING THEN HealthWarning(bpm) ELSE "off"
  /\ pc' = "sample"
  /\ UNCHANGED <<now, drive, sensorVars, pulseThreshold, bpmVars, systemState,
                 wrapped, atStart, peaks, lockedOut, nq, protoVars>>

Next ==
  \/ Sample
  \/ IdleStretch
  \/ QuietReset
  \/ Heartbeat
  \/ Timeout
  \/ UpdateSystemState
  \/ UpdateLED

Spec == Init /\ [][Next]_vars
TrainSpec == TrainInit /\ [][Next]_vars
NoContactSpec == NoContactInit /\ [][Next]_vars
FastSpec == FastInit /\ [][Next]_vars
HighAmbientSpec == HighAmbientInit /\ [][Next]_vars

----------------------------------------------------------------------------
(* The steps of the earlier revisions *)

ProtoDrives ==
  {AttachDrive} \cup {PulseDrive(k) : k \in ProtoSlacks}
                \cup {TestverDrive(k) : k \in ProtoSlacks}

\* a run of an earlier revision: the tracker's variables stay as initialised
ProtoInit ==
  /\ TrackerInitWith(FreeDrive(300), 0)
  /\ \E drv \in ProtoDrives : ProtoInitWith(drv)

\* the beat accounting of readHeartRate() (part_000 lines 178-193) and of
\* testPulseSensor() (testver.ino lines 83-99), called at clock value protoNow
CountPeak(peak, required) ==
  IF peak
    THEN LET interval == protoNow - lastBeat
             counted == lastBeat > 0 /\ ProtoIntervalCounts(interval)
             count == beatCount + 1
             report == counted /\ count >= required
         IN /\ beatCount' = IF ~counted THEN beatCount
                            ELSE IF report THEN 0 ELSE count
            /\ heartRateBPM' = IF report /\ RateDivisor(interval, count) # 0
                                 THEN 60000 \div RateDivisor(interval, count)
                                 ELSE heartRateBPM
            /\ divTrap' = (divTrap \/ (report /\ RateDivisor(interval, count) = 0))
            /\ lastBeat' = protoNow
    ELSE UNCHANGED <<beatCount, heartRateBPM, divTrap, lastBeat>>

\* part_000 lines 152-197
readHeartRate(pulse) ==
  LET buffer == Store(pulseBuffer, bufferIndex, pulse)
      pulseAvg == SeqSum(buffer) \div 10
      isRising == pulseAvg > lastPulse
  IN /\ pulseBuffer' = buffer
     /\ bufferIndex' = (bufferIndex + 1) % 10
     /\ CountPeak(wasRising /\ ~isRising /\ pulseAvg > 2000, BeatsPerReport("part_000"))
     /\ wasRising' = isRising
     /\ lastPulse' = pulseAvg

\* testver.ino lines 59-107 (signal quality and sensorDetected left out)
testPulseSensor(rawPulse) ==
  LET buffer == Store(pulseBuffer, bufferIndex, rawPulse)
      variation == SeqMax(buffer) - SeqMin(buffer)
      isRising == rawPulse > lastPulse
  IN /\ pulseBuffer' = buffer
     /\ bufferIndex' = (bufferIndex + 1) % 20
     /\ CountPeak(wasRising /\ ~isRising /\ variation > 200, BeatsPerReport("testver"))
     /\ wasRising' = isRising
     /\ lastPulse' = rawPulse

\* part_000 lines 133-149
checkAttachment(fsrValue) ==
  LET count == NextAttachmentCount(attachmentCount, fsrValue)
  IN /\ attachmentCount' = count
     /\ isProperlyAttached' = Attached(count)
     /\ highsSinceZero' = IF count = 0 THEN 0
                          ELSE IF fsrValue > 1000 THEN Min(highsSinceZero + 1, 3)
                          ELSE highsSinceZero
     /\ lowsSinceFull' = IF count = 5 THEN 0
                         ELSE IF fsrValue > 1000 \/ lowsSinceFull = -1
                           THEN lowsSinceFull
                           ELSE Min(lowsSinceFull + 1, 3)

\* loop() of part_000, lines 110-130
ProtoLoop ==
  /\ protoDrive.rev = "part_000"
  /\ protoLoops < protoDrive.loops
  /\ \E fsrValue \in protoDrive.fsrs, pulse \in protoDrive.pulses :
       /\ checkAttachment(fsrValue)
       /\ IF isProperlyAttached'
            THEN /\ readHeartRate(pulse)
                 /\ protoNow' = protoNow + protoDrive.slack + 500
            ELSE /\ UNCHANGED heartVars
                 /\ protoNow' = protoNow + protoDrive.slack + 1000 + 500
  /\ protoLoops' = protoLoops + 1
  /\ UNCHANGED <<protoDrive, trackerVars>>

\* loop() of testver.ino, lines 50-56
TestverLoop ==
  /\ protoDrive.rev = "testver"
  /\ protoLoops < protoDrive.loops
  /\ \E rawPulse \in protoDrive.pulses :
       /\ testPulseSensor(rawPulse)
       /\ protoNow' = protoNow + protoDrive.slack + 250
  /\ protoLoops' = protoLoops + 1
  /\ UNCHANGED <<protoDrive, attachmentCount, isProperlyAttached,
                 highsSinceZero, lowsSinceFull, trackerVars>>

ProtoNext ==
  \/ ProtoLoop
  \/ TestverLoop

ProtoSpec == ProtoInit /\ [][ProtoNext]_vars

----------------------------------------------------------------------------
(* Properties *)

\* between two ticks: one execution of loop() has ended, the next has not begun
EndOfTick == pc = "sample"

\* the age of the last accepted beat, as the timeout check of the tick saw it
ValidBeatAge == Elapsed(now, lastValidBeatTime)

\* C1: at the end of every tick in which the presence predicate is false
\* (pressure <= 400, or piezo <= 800 and audio <= 300), the state is NO_DOG and
\* bpm and validBeatCount are 0, whatever they were when the tick began.
C1_PresenceOverrides ==
  (EndOfTick /\ (fsrRaw <= 400 \/ (piezoRaw <= 800 /\ audioEnergy <= 300)))
    => (systemState = NO_DOG /\ bpm = 0 /\ validBeatCount = 0)

\* a tick that began in MONITORING with a running streak, lost presence without
\* being quiet or timed out, and ended in NO_DOG
C1_Witness ==
  /\ EndOfTick
  /\ ~isDogReallyPresent /\ ~isSystemQuiet
  /\ ~UGt(ValidBeatAge, HEARTBEAT_TIMEOUT)
  /\ atStart.systemState = MONITORING
  /\ atStart.bpm > 0 /\ atStart.validBeatCount > 0
  /\ systemState = NO_DOG /\ bpm = 0 /\ validBeatCount = 0

\* C2: at the end of every tick the state is MONITORING iff presence holds and
\* bpm # 0, WEAK_SIGNAL iff presence holds and bpm = 0, NO_DOG iff presence does
\* not hold, whatever the state was before; before any tick it is NO_DOG with
\* bpm = 0.
C2_StateIsFunctionOfInputs ==
  /\ EndOfTick =>
       LET present == fsrRaw > 400 /\ (piezoRaw > 800 \/ audioEnergy > 300)
       IN /\ (systemState = MONITORING) <=> (present /\ bpm # 0)
          /\ (systemState = WEAK_SIGNAL) <=> (present /\ bpm = 0)
          /\ (systemState = NO_DOG) <=> ~present
  /\ (~wrapped /\ now = StartupMillis) => (systemState = NO_DOG /\ bpm = 0)

\* a tick that began in WEAK_SIGNAL and ended in MONITORING
C2_Witness ==
  /\ EndOfTick
  /\ atStart.systemState = WEAK_SIGNAL
  /\ systemState = MONITORING /\ bpm # 0

\* C3: at the end of every tick, if more than HEARTBEAT_TIMEOUT ms have elapsed
\* since lastValidBeatTime then bpm and validBeatCount are 0.
C3_NoStaleReading ==
  (EndOfTick /\ UGt(ValidBeatAge, 3000)) => (bpm = 0 /\ validBeatCount = 0)

\* a tick that began with a displayed BPM, kept presence, and ended with the
\* reading dropped because the last accepted beat had become too old
C3_Witness ==
  /\ EndOfTick
  /\ atStart.bpm > 0 /\ atStart.systemState = MONITORING
  /\ isDogReallyPresent
  /\ UGt(ValidBeatAge, 3000)
  /\ bpm = 0 /\ validBeatCount = 0


\* the step of the tick in which updateBPM() is called
BeatStep == pc = "heartbeat" /\ detectHeartbeat

\* the beat updateBPM() is called for is the first ever, or its interval lies
\* outside 300..1800 ms, or its instantaneous BPM lies outside 40..250
ImplausibleBeat ==
  LET interval == Elapsed(now, lastBeatTime)
  IN \/ lastBeatTime = 0
     \/ interval <= 0
     \/ interval < 300 \/ interval > 1800
     \/ 60000 \div interval < 40 \/ 60000 \div interval > 250

\* C4: a call of updateBPM() for an implausible beat leaves bpm, lastStableBPM,
\* validBeatCount and lastValidBeatTime unchanged, and every call of updateBPM()
\* sets lastBeatTime to the current clock value.
C4_ImplausibleBeatOnlyStamps ==
  [][BeatStep =>
       /\ lastBeatTime' = now
       /\ ImplausibleBeat =>
            UNCHANGED <<bpm, lastStableBPM, validBeatCount, lastValidBeatTime>>]_vars

\* right after updateBPM() was called for an interval inside 300..1800 ms whose
\* instantaneous BPM is under 40, with a streak in progress that it left alone
C4_Witness ==
  LET interval == Elapsed(now, atStart.lastBeatTime)
  IN /\ pc = "timeout"
     /\ lastBeatTime = now
     /\ atStart.lastBeatTime # 0
     /\ interval >= 300 /\ interval <= 1800 /\ 60000 \div interval < 40
     /\ validBeatCount > 0 /\ validBeatCount = atStart.validBeatCount
     /\ bpm = atStart.bpm /\ lastStableBPM = atStart.lastStableBPM
     /\ lastValidBeatTime = atStart.lastValidBeatTime

\* C5: updateBPM() writes bpm, lastStableBPM and lastValidBeatTime only in a call
\* after whose consistency step validBeatCount >= 3; bpm leaves 0, and the state
\* becomes MONITORING, in no other way; a call advances the streak by at most
\* one, only for an interval inside 300..1800 ms with a BPM inside 40..250, and
\* while bpm # 0 only for a BPM within 20 of lastStableBPM.
C5_NoAcceptanceBeforeStreak ==
  /\ [][BeatStep =>
          /\ (bpm' # bpm \/ lastStableBPM' # lastStableBPM
                \/ lastValidBeatTime' # lastValidBeatTime)
               => validBeatCount' >= 3
          /\ validBeatCount' <= validBeatCount + 1
          /\ validBeatCount' > validBeatCount =>
               /\ ~ImplausibleBeat
               /\ bpm # 0 =>
                    Abs(60000 \div Elapsed(now, lastBeatTime) - lastStableBPM) <= 20]_vars
  /\ [][(bpm = 0 /\ bpm' # 0) => (BeatStep /\ validBeatCount' >= 3)]_vars
  /\ [][(systemState # MONITORING /\ systemState' = MONITORING) => bpm' # 0]_vars

\* right after the call of updateBPM() that accepts for the first time: the
\* third counted interval, bpm leaving 0
C5_Witness ==
  /\ pc = "timeout"
  /\ lastBeatTime = now /\ lastValidBeatTime = now
  /\ atStart.bpm = 0 /\ atStart.validBeatCount = 2
  /\ validBeatCount = 3 /\ bpm # 0 /\ lastStableBPM # 0

\* C8: a tick that begins in MONITORING, keeps presence and accepts no beat ends
\* in MONITORING with bpm unchanged and nonzero if the last accepted beat is at
\* most 3000 ms old, and in WEAK_SIGNAL with bpm = 0 and validBeatCount = 0 if
\* it is older.
C8_TimeoutAtBoundary ==
  (/\ EndOfTick
   /\ atStart.systemState = MONITORING
   /\ fsrRaw > 400 /\ (piezoRaw > 800 \/ audioEnergy > 300)
   /\ lastValidBeatTime = atStart.lastValidBeatTime)
    => IF ValidBeatAge >= 0 /\ ValidBeatAge <= 3000
         THEN systemState = MONITORING /\ bpm = atStart.bpm /\ bpm # 0
         ELSE systemState = WEAK_SIGNAL /\ bpm = 0 /\ validBeatCount = 0

\* the tick at which the last accepted beat is exactly 3000 ms old: still
\* MONITORING, with an unchanged reading
C8_Witness ==
  /\ EndOfTick
  /\ atStart.systemState = MONITORING
  /\ isDogReallyPresent
  /\ lastValidBeatTime = atStart.lastValidBeatTime
  /\ ValidBeatAge = 3000
  /\ systemState = MONITORING /\ bpm = atStart.bpm /\ bpm # 0

\* the first tick after the boundary: the reading is dropped
C8_WitnessExpired ==
  /\ EndOfTick
  /\ atStart.systemState = MONITORING
  /\ isDogReallyPresent
  /\ ValidBeatAge > 3000 /\ ValidBeatAge <= 3000 + drive.tick
  /\ systemState = WEAK_SIGNAL /\ bpm = 0 /\ validBeatCount = 0

\* C9: in every tick in which the quiet condition holds (pressure < 400,
\* piezo < 500, audio < 200), bpm and validBeatCount are 0 from the quiet reset
\* to the end of the tick, whatever they were before.
C9_QuietReset ==
  (pc # "quiet" /\ fsrRaw < 400 /\ piezoRaw < 500 /\ audioEnergy < 200)
    => (bpm = 0 /\ validBeatCount = 0)

\* the end of a quiet tick that began with a displayed BPM and a streak
C9_Witness ==
  /\ EndOfTick
  /\ isSystemQuiet
  /\ atStart.bpm > 0 /\ atStart.validBeatCount > 0
  /\ bpm = 0 /\ validBeatCount = 0


\* a scripted train whose peaks are corroborated by the piezo channel, at the
\* end of the tick of its n-th pulse peak
TrainBeatTick(n) ==
  /\ drive.kind = "train" /\ drive.piezo > PIEZO_ACTIVITY_THRESHOLD
  /\ EndOfTick
  /\ peaks = n /\ pulseRaw > pulseThreshold

\* C6: for a periodic beat train of in-band interval I, presence held, from
\* bpm = 0, the displayed bpm at the tick of the beat that completes the third
\* interval is within 20 of 60000/I.
C6_TrainConverges ==
  TrainBeatTick(4) => Abs(bpm - 60000 \div drive.period) <= 20

\* C7: with pressure 500, piezo 900 and audio 0 on every tick and the smoothed
\* pulse rising above the threshold of 3000 once every 500 ms, the state is
\* MONITORING from the beat that completes the third interval on.
C7_ScenarioReachesMonitoring ==
  (/\ drive.kind = "train" /\ drive.period = 500 /\ drive.piezo = 900
   /\ EndOfTick
   /\ peaks >= 4)
    => systemState = MONITORING


\* C10: if every raw pressure sample is at or below the attachment threshold,
\* then whatever the other channels read the smoothed pressure never exceeds
\* 400, detectHeartbeat() never returns true (no beat is flagged or stamped),
\* bpm stays 0 and the state stays NO_DOG; and the LED is toggled only when more
\* than 1000 ms have passed since the previous toggle.
C10_AbsentWithoutContact ==
  /\ [](drive.kind = "nocontact" =>
          /\ fsrRaw <= 400
          /\ ~detectHeartbeat /\ ~beatDetected /\ lastBeatTime = 0
          /\ bpm = 0
          /\ systemState = NO_DOG)
  /\ [][(drive.kind = "nocontact" /\ pc = "led" /\ ledPin' # ledPin)
          => (Elapsed(now, lastBlink) < 0 \/ Elapsed(now, lastBlink) > 1000)]_vars

\* the end of a tick without contact on which every other channel is above its
\* beat threshold, the smoothed pressure close to the threshold, the LED
\* blinking
C10_Witness ==
  /\ drive.kind = "nocontact"
  /\ EndOfTick
  /\ fsrRaw > 390
  /\ pulseRaw > pulseThreshold
  /\ piezoRaw > PIEZO_ACTIVITY_THRESHOLD /\ audioEnergy > AUDIO_ACTIVITY_THRESHOLD
  /\ systemState = NO_DOG
  /\ ledState /\ lastBlink = now


\* C11: at the end of every tick that ends in MONITORING, the LED was pulsed in
\* the tick if and only if the beat detector fired in that tick (so never for a
\* flag left over from an earlier tick), beatDetected is false and the LED is
\* off.
C11_IndicatorInMonitoring ==
  (EndOfTick /\ systemState = MONITORING)
    => /\ flashed <=> (/\ fsrRaw > 400 /\ (piezoRaw > 800 \/ audioEnergy > 300)
                       /\ pulseRaw > pulseThreshold
                       /\ (piezoRaw > 1500 \/ audioEnergy > 500))
       /\ ~beatDetected
       /\ ~ledPin

\* the end of a tick in MONITORING without a beat, after a tick that pulsed the
\* LED: no pulse, flag down, LED off
C11_Witness ==
  /\ EndOfTick
  /\ systemState = MONITORING /\ atStart.systemState = MONITORING
  /\ ~detectHeartbeat
  /\ ~flashed /\ ~beatDetected /\ ~ledPin

\* the end of the tick that enters MONITORING with the flag already raised by
\* a beat in WEAK_SIGNAL and the LED lit by the blinking: one pulse, LED off
C11_WitnessEntered ==
  /\ EndOfTick
  /\ systemState = MONITORING /\ atStart.systemState = WEAK_SIGNAL
  /\ atStart.beatDetected
  /\ detectHeartbeat
  /\ flashed /\ ~beatDetected /\ ~ledPin /\ ledState


\* C12: the health check runs in a tick only if the tick ends in MONITORING; it
\* then prints the low-rate warning exactly when bpm < 60, the high-rate
\* warning exactly when bpm > 160, and nothing for 60..160; and the step that
\* contains it changes none of bpm, validBeatCount, lastStableBPM, the two
\* timestamps and systemState.
C12_HealthAlertsAdvisory ==
  /\ [](EndOfTick =>
          healthAlert = IF systemState # MONITORING THEN "off"
                        ELSE IF bpm < 60 THEN "LOW"
                        ELSE IF bpm > 160 THEN "HIGH"
                        ELSE "none")
  /\ [][pc = "led" =>
          UNCHANGED <<bpm, validBeatCount, lastStableBPM, lastBeatTime,
                      lastValidBeatTime, systemState>>]_vars

\* the end of a tick in MONITORING with a displayed BPM above 160 and the
\* high-rate warning printed
C12_Witness ==
  /\ EndOfTick
  /\ systemState = MONITORING
  /\ bpm > 160
  /\ healthAlert = "HIGH"

\* the same at the two sides of the low bound
C12_WitnessLow ==
  EndOfTick /\ systemState = MONITORING /\ bpm < 60 /\ healthAlert = "LOW"

C12_WitnessNone ==
  /\ EndOfTick /\ systemState = MONITORING
  /\ bpm >= 60 /\ bpm <= 160 /\ healthAlert = "none"


\* C13: a call of updateBPM() with bpm # 0 that computes an in-range
\* instantaneous BPM more than 20 away from lastStableBPM resets validBeatCount
\* to 0 and leaves bpm, lastStableBPM and lastValidBeatTime unchanged; and bpm
\* is written by a call only if the streak stood at REQUIRED_VALID_BEATS - 1 or
\* more before it and the call counted its interval, each call counting at most
\* one, so that three further counted intervals separate the reset from the
\* next write.
C13_OutlierNotAccepted ==
  /\ [][(/\ BeatStep /\ BeatCounts
          /\ bpm # 0
          /\ Abs(60000 \div Elapsed(now, lastBeatTime) - lastStableBPM) > 20)
          => /\ validBeatCount' = 0
             /\ UNCHANGED <<bpm, lastStableBPM, lastValidBeatTime>>]_vars
  /\ [][(BeatStep /\ (bpm' # bpm \/ lastValidBeatTime' # lastValidBeatTime))
          => /\ validBeatCount >= REQUIRED_VALID_BEATS - 1
             /\ validBeatCount' = validBeatCount + 1
             /\ BeatCounts
             /\ bpm # 0 => Abs(60000 \div Elapsed(now, lastBeatTime) - lastStableBPM) < 20]_vars
  /\ [][(BeatStep /\ validBeatCount' > validBeatCount)
          => (validBeatCount' = validBeatCount + 1 /\ BeatCounts)]_vars

\* right after the call of updateBPM() for an outlier: a displayed BPM and a
\* complete streak at the start of the tick, the streak now 0, the rest kept
C13_Witness ==
  /\ pc = "timeout"
  /\ lastBeatTime = now
  /\ atStart.lastBeatTime # 0
  /\ IntervalPlausible(Elapsed(now, atStart.lastBeatTime))
  /\ BpmInRange(60000 \div Elapsed(now, atStart.lastBeatTime))
  /\ Abs(60000 \div Elapsed(now, atStart.lastBeatTime) - atStart.lastStableBPM) > 20
  /\ atStart.bpm # 0 /\ atStart.validBeatCount >= 3
  /\ validBeatCount = 0
  /\ bpm = atStart.bpm /\ lastStableBPM = atStart.lastStableBPM
  /\ lastValidBeatTime = atStart.lastValidBeatTime

\* right after the first write of bpm that follows an outlier: the streak had
\* been rebuilt to 2 while the old reading was still displayed
C13_WitnessRecovered ==
  /\ pc = "timeout"
  /\ lastValidBeatTime = now
  /\ atStart.bpm # 0 /\ atStart.validBeatCount = 2
  /\ validBeatCount = 3 /\ bpm # atStart.bpm


\* C14: at the end of a tick in which presence is false and the quiet condition
\* is false too (and the last accepted beat is not older than the timeout), the
\* state is NO_DOG while bpm and validBeatCount are what they were when the
\* tick began; bpm and the streak are discarded only in quiet ticks.
C14_AmbiguousAbsenceKeepsBPM ==
  (/\ EndOfTick
   /\ ~(fsrRaw > 400 /\ (piezoRaw > 800 \/ audioEnergy > 300))
   /\ ~(fsrRaw < 400 /\ piezoRaw < 500 /\ audioEnergy < 200)
   /\ ValidBeatAge >= 0 /\ ValidBeatAge <= 3000)
    => /\ systemState = NO_DOG
       /\ bpm = atStart.bpm
       /\ validBeatCount = atStart.validBeatCount


\* C15: for a periodic beat train of period P whose beat condition holds on
\* several consecutive ticks of each heartbeat, every call of updateBPM() whose
\* interval passes the filters (and so advances the streak) is the first of its
\* heartbeat and computes the instantaneous BPM 60000/P.
C15_EstimatorDeduplicates ==
  (/\ drive.kind = "train" /\ drive.piezo > PIEZO_ACTIVITY_THRESHOLD
   /\ BeatStep /\ BeatCounts)
    => /\ Elapsed(now, lastBeatTime) > (drive.width - 1) * LOOP_DELAY
       /\ 60000 \div Elapsed(now, lastBeatTime) = 60000 \div drive.period


\* C16: a call of updateBPM() with an earlier beat on record passes its
\* interval to the consistency check if and only if the interval is within
\* 300..1800 ms, bounds included, and 60000/interval is within 40..250; an
\* interval of exactly 300 ms (200 BPM) is counted toward the streak.
C16_BandInclusive ==
  [][(BeatStep /\ lastBeatTime # 0) =>
       LET interval == Elapsed(now, lastBeatTime)
           inBand == /\ 300 <= interval /\ interval <= 1800
                     /\ 40 <= 60000 \div interval /\ 60000 \div interval <= 250
       IN /\ BeatCounts <=> inBand
          /\ (inBand /\ bpm = 0) => validBeatCount' = validBeatCount + 1
          /\ ~inBand => validBeatCount' = validBeatCount]_vars


\* C17: once the timeout check of a tick has found the last accepted beat more
\* than 3000 ms old, and for as long as millis() does not wrap, bpm is 0, the
\* streak is below REQUIRED_VALID_BEATS, 0 at the end of every tick even when
\* the tick counted a beat, and the state is not MONITORING; the first tick
\* after startup, where lastValidBeatTime is 0, is such a tick.
C17_TimeoutLockOut ==
  /\ lockedOut =>
       /\ bpm = 0
       /\ validBeatCount < REQUIRED_VALID_BEATS
       /\ (EndOfTick \/ pc = "state" \/ pc = "led") => validBeatCount = 0
       /\ EndOfTick => systemState # MONITORING
  /\ (~wrapped /\ (pc = "state" \/ pc = "led" \/ (EndOfTick /\ now # StartupMillis)))
       => lockedOut

\* the end of a tick after startup whose beat was counted toward the streak
\* (an interval and BPM the filters pass) and wiped by the timeout
C17_Witness ==
  /\ EndOfTick
  /\ ~wrapped /\ lockedOut
  /\ detectHeartbeat
  /\ lastBeatTime = now /\ atStart.lastBeatTime # 0
  /\ IntervalPlausible(Elapsed(now, atStart.lastBeatTime))
  /\ BpmInRange(60000 \div Elapsed(now, atStart.lastBeatTime))
  /\ validBeatCount = 0 /\ bpm = 0
  /\ systemState = WEAK_SIGNAL

\* the same after a reading was displayed and timed out: locked out again,
\* with millis() past its wrap
C17_WitnessAfterReading ==
  /\ EndOfTick
  /\ wrapped /\ lockedOut
  /\ lastValidBeatTime # 0
  /\ detectHeartbeat
  /\ validBeatCount = 0 /\ bpm = 0
  /\ systemState = WEAK_SIGNAL


\* C18: no sensor frame satisfies both the presence and the quiet predicate,
\* and a pressure of exactly 400 satisfies neither; every quiet tick ends in
\* NO_DOG; and the program without the quiet-reset block ends every tick with
\* the same bpm, validBeatCount and systemState.
C18_QuietResetRedundant ==
  LET present == fsrRaw > 400 /\ (piezoRaw > 800 \/ audioEnergy > 300)
      quiet == fsrRaw < 400 /\ piezoRaw < 500 /\ audioEnergy < 200
  IN /\ ~(isDogReallyPresent /\ isSystemQuiet)
     /\ isDogReallyPresent <=> present
     /\ isSystemQuiet <=> quiet
     /\ fsrRaw = 400 => (~isDogReallyPresent /\ ~isSystemQuiet)
     /\ (EndOfTick /\ quiet) => systemState = NO_DOG
     /\ EndOfTick =>
          /\ nq.bpm = bpm
          /\ nq.validBeatCount = validBeatCount
          /\ nq.systemState = systemState

\* a quiet tick that began with a displayed BPM, before updateSystemState():
\* the quiet reset has discarded the reading, without the block it is still
\* there
C18_Witness ==
  /\ pc = "state"
  /\ isSystemQuiet
  /\ atStart.bpm # 0
  /\ bpm = 0 /\ validBeatCount = 0
  /\ nq.bpm = atStart.bpm /\ nq.validBeatCount = atStart.validBeatCount
  /\ nq.validBeatCount > 0

\* the end of a tick with the pressure at exactly 400
C18_WitnessAtThreshold ==
  /\ EndOfTick
  /\ fsrRaw = 400 /\ audioEnergy > 300
  /\ atStart.bpm # 0
  /\ systemState = NO_DOG /\ bpm = 0


\* C19: in every reachable state bpm is 0 or within 13..199 and validBeatCount
\* is not negative; every accepted instantaneous BPM (lastStableBPM) is within
\* 40..199, and every interval the interval filter passes gives at most 199, so
\* that the bound BPM_MAX rejects nothing.
C19_DisplayedRange ==
  /\ bpm = 0 \/ (13 <= bpm /\ bpm <= 199)
  /\ validBeatCount >= 0
  /\ lastStableBPM = 0 \/ (40 <= lastStableBPM /\ lastStableBPM <= 199)
  /\ (BeatStep /\ lastBeatTime # 0 /\ IntervalPlausible(Elapsed(now, lastBeatTime)))
       => 60000 \div Elapsed(now, lastBeatTime) <= 199

\* the end of a tick in MONITORING that displays a BPM under BPM_MIN: the first
\* acceptance from bpm = 0, a third of the instantaneous BPM
C19_Witness ==
  /\ EndOfTick
  /\ systemState = MONITORING
  /\ bpm # 0 /\ bpm < BPM_MIN
  /\ atStart.bpm = 0
  /\ bpm = lastStableBPM \div 3

\* the top of the range: the instantaneous BPM 199 accepted
C19_WitnessTop ==
  /\ EndOfTick
  /\ systemState = MONITORING
  /\ lastStableBPM = 199 /\ bpm > 190


\* C20: after a calibration whose ambient mean is 3295 or more, pulseThreshold
\* is that mean plus 800, unclamped, and whatever the raw samples within
\* 0..4095 the smoothed pulse never exceeds it, detectHeartbeat() never returns
\* true (no beat is flagged or stamped), bpm stays 0 and the state is never
\* MONITORING.
C20_HighAmbientDisablesDetection ==
  drive.kind = "highambient" =>
    /\ pulseThreshold >= 3295 + 800
    /\ pulseRaw <= ADC_MAX /\ pulseRaw <= pulseThreshold
    /\ ~(/\ fsrRaw > 400 /\ (piezoRaw > 800 \/ audioEnergy > 300)
         /\ pulseRaw > pulseThreshold
         /\ (piezoRaw > 1500 \/ audioEnergy > 500))
    /\ ~beatDetected /\ lastBeatTime = 0
    /\ bpm = 0
    /\ systemState # MONITORING

\* the end of a tick, while no timeout has fired since millis() wrapped, with
\* contact, piezo and audio above their beat thresholds and the smoothed pulse
\* driven by the largest raw sample to above 3800: still no beat
C20_Witness ==
  /\ drive.kind = "highambient"
  /\ EndOfTick
  /\ wrapped /\ ~lockedOut
  /\ pulseThreshold = 3295 + 800
  /\ pulseRaw > 3800
  /\ fsrRaw > FSR_ATTACHED_THRESHOLD
  /\ piezoRaw > PIEZO_ACTIVITY_THRESHOLD /\ audioEnergy > AUDIO_ACTIVITY_THRESHOLD
  /\ lastBeatTime = 0
  /\ systemState = WEAK_SIGNAL


----------------------------------------------------------------------------
(* The earlier revisions' beat rate and attachment debounce *)

\* C21: every value that readHeartRate() (after 5 counted beats) or
\* testPulseSensor() (after 4 counted beats) assigns to dog.heartRateBPM lies
\* in the 40..200 BPM range that the interval filter is commented to enforce
\* (0 is the value before the first assignment), and the division
\* 60000 / (interval / beatCount) never divides by zero.
C21_RateIn40To200 ==
  /\ heartRateBPM = 0 \/ (40 <= heartRateBPM /\ heartRateBPM <= 200)
  /\ ~divTrap

\* the part of C21 that the code keeps: the division never traps, and the
\* values assigned lie in 160..1000
C21_DivisionDefined ==
  /\ ~divTrap
  /\ heartRateBPM = 0 \/ (160 <= heartRateBPM /\ heartRateBPM <= 1000)

\* C22: after every call of checkAttachment() attachmentCount lies in 0..5
\* and dog.isProperlyAttached equals (attachmentCount >= 3); the sensor is
\* reported attached only after at least 3 pressure reads above 1000 since
\* the counter was 0, and, once the counter has been 5, reported detached
\* only after at least 3 reads of 1000 or less since it was 5.
C22_AttachmentDebounce ==
  /\ attachmentCount \in 0 .. 5
  /\ isProperlyAttached = (attachmentCount >= 3)
  /\ isProperlyAttached => highsSinceZero >= 3
  /\ ~isProperlyAttached => (lowsSinceFull = -1 \/ lowsSinceFull >= 3)

\* the counter has been 5, and the sensor is reported detached on the third
\* read of 1000 or less after that
C22_Witness ==
  /\ protoLoops = 8
  /\ ~isProperlyAttached
  /\ attachmentCount = 2
  /\ lowsSinceFull = 3

\* reported attached on the third read above 1000 from the detached state
C22_WitnessAttached ==
  /\ protoLoops = 3
  /\ isProperlyAttached
  /\ attachmentCount = 3

====
